---- MODULE Spec2Model ----
(***************************************************************************)
(* Job orchestration of the ZK-PRET integrated server:                     *)
(*   AsyncJobManager (server/integrated-server.ts) and                     *)
(*   ZKToolExecutor  (server/services/zkToolExecutor.ts).                  *)
(*                                                                         *)
(* One action is one macrotask of the Node event loop: an HTTP request     *)
(* handler together with everything it runs synchronously and every        *)
(* promise continuation (microtask) it makes runnable, or the settling of  *)
(* an asynchronous operation (module import, capability, timer) together   *)
(* with the continuations that follow it.                                  *)
(***************************************************************************)
EXTENDS Integers, Sequences, FiniteSets, TLC

VARIABLES
    objs,       \* the Job objects ever created, in creation order (the heap)
    jobs,       \* AsyncJobManager.jobs: Map id -> index of a Job object
    task,       \* per Job object: state of its processJob / executeTool call
    published,  \* every event handed to a broadcast, in order
    clients,    \* wss.clients: readyState of each WebSocket client
    now,        \* Date.now()
    proc,       \* "running", or "terminated" by an escaped exception
    escaped,    \* exceptions that left every try block of the program
    generated,  \* the ids generateJobId has returned, in order
    cleared,    \* Job objects that clearCompletedJobs removed from the Map
    \* The fan-out of one broadcast over wss.clients, client by client.
    wssClients, \* wss.clients: the connected sockets, in insertion order
    readyState, \* per socket: "none" (not yet connected), "open", "closing",
                \*   "closed" (removed from wss.clients)
    received,   \* per socket: the messages the server sent it, in order
    sends,      \* every broadcast call made, in order
    \* The console redirect of executeDirectly, line by line.
    consoleLog, \* the process-global console.log: 0 is the runtime's own,
                \*   n the interceptor installed by invocation n
    invocations,\* per executeDirectly call: its local variables
    written,    \* every line a capability wrote with console.log, in order
    emitted,    \* every event the interceptors handed to
                \*   broadcastExecutionUpdate, in order
    sink,       \* the lines that reached the runtime's own console.log
    \* ZKToolExecutor on its own: initialize and single executeTool calls.
    startup,    \* startServer / initialize: where it is and what it found
    calls,      \* the executeTool calls made, each with its effects
    \* The executor with the spawned-process mode.
    config,     \* what the constructor read from the environment
    executions, \* the executions routed by executeCompiledScript
    children    \* the node processes spawned by executeJavaScriptFile

serverVars == <<objs, jobs, task, published, clients, now, proc, escaped,
                generated, cleared>>

fanoutVars == <<wssClients, readyState, received, sends>>

consoleVars == <<consoleLog, invocations, written, emitted, sink>>

toolVars == <<startup, calls>>

spawnVars == <<config, executions, children>>

vars == <<serverVars, fanoutVars, consoleVars, toolVars, spawnVars>>

---------------------------------------------------------------------------
\* Bounds of the model.

\* number of submit-job requests
MaxJobs == 2
\* Date.now() ranges over 0..MaxClock
MaxClock == 1
\* Math.random() draws range over 0..MaxRandom
MaxRandom == 1
\* number of WebSocket clients
NumClients == 1
\* config.timeout, in clock ticks
timeout == 1
\* WebSocket connections made during a run of the fan-out.
MaxSubscribers == 4
\* Broadcast calls during a run of the fan-out.
MaxPublishes == 2
\* subscribe_state_monitoring messages sockets send during a run.
MaxRequests == 1
\* Lines the capability of a single invocation writes.
MaxLines == 6
\* executeDirectly calls that overlap, and the lines their capabilities write.
MaxInvocations == 2
MaxOverlapLines == 3
\* executeTool calls made on the executor on its own.
MaxCalls == 1
\* Executions routed by the executor with the spawned-process mode, and
\* the chunks a spawned process writes to its stdout.
MaxExecutions == 2
MaxChunks == 1

---------------------------------------------------------------------------
\* Values.

Undefined == -1
NoError == ""
NoId == <<"none", 0, 0>>

\* A caller-supplied jobId of the request body.
CallerIds == {<<"caller", 1, 0>>}

\* 'job_' + Date.now() + '_' + Math.random().toString(36).substr(2, 9):
\* the string is determined by, and determines, the pair (time, draw).
generateJobId(t, r) == <<"job_", t, r>>

\* The keys of toolScriptMap with their script files.
toolScriptMap ==
    [n \in {"get-GLEIF-verification-with-sign",
            "get-Corporate-Registration-verification-with-sign",
            "get-EXIM-verification-with-sign",
            "get-Composed-Compliance-verification-with-sign",
            "get-BSDI-compliance-verification",
            "get-BPI-compliance-verification",
            "get-RiskLiquidityACTUS-Verifier-Test_adv_zk",
            "get-RiskLiquidityACTUS-Verifier-Test_Basel3_Withsign",
            "get-RiskLiquidityBasel3Optim-Merkle-verification-with-sign",
            "get-RiskLiquidityAdvancedOptimMerkle-verification-with-sign",
            "get-StablecoinProofOfReservesRisk-verification-with-sign",
            "execute-composed-proof-full-kyc",
            "execute-composed-proof-financial-risk",
            "execute-composed-proof-business-integrity",
            "execute-composed-proof-comprehensive"} |->
     CASE n = "get-GLEIF-verification-with-sign" ->
              "GLEIFOptimMultiCompanyVerificationTestWithSign.js"
       [] n = "get-Corporate-Registration-verification-with-sign" ->
              "CorporateRegistrationOptimMultiCompanyVerificationTestWithSign.js"
       [] n = "get-EXIM-verification-with-sign" ->
              "EXIMOptimMultiCompanyVerificationTestWithSign.js"
       [] n = "get-BSDI-compliance-verification" ->
              "BusinessStdIntegrityOptimMerkleVerificationTestWithSign.js"
       [] n = "get-BPI-compliance-verification" ->
              "BusinessProcessIntegrityOptimMerkleVerificationFileTestWithSign.js"
       [] n \in {"get-RiskLiquidityACTUS-Verifier-Test_adv_zk",
                 "get-RiskLiquidityAdvancedOptimMerkle-verification-with-sign"} ->
              "RiskLiquidityAdvancedOptimMerkleVerificationTestWithSign.js"
       [] n \in {"get-RiskLiquidityACTUS-Verifier-Test_Basel3_Withsign",
                 "get-RiskLiquidityBasel3Optim-Merkle-verification-with-sign"} ->
              "RiskLiquidityBasel3OptimMerkleVerificationTestWithSign.js"
       [] n = "get-StablecoinProofOfReservesRisk-verification-with-sign" ->
              "RiskLiquidityStableCoinOptimMerkleVerificationTestWithSign.js"
       [] OTHER -> "ComposedRecursiveOptim3LevelVerificationTestWithSign.js"]

\* The tool names that have a case in the switch of executeDirectly.
DirectBindings ==
    {"get-GLEIF-verification-with-sign",
     "get-BSDI-compliance-verification",
     "get-RiskLiquidityBasel3Optim-Merkle-verification-with-sign",
     "get-EXIM-verification-with-sign",
     "get-Corporate-Registration-verification-with-sign",
     "get-BPI-compliance-verification",
     "get-StablecoinProofOfReservesRisk-verification-with-sign",
     "get-RiskLiquidityAdvancedOptimMerkle-verification-with-sign"}

\* The tool names the requests of the model use: one with a binding, one
\* of the catalog without a binding, one that is not in the catalog.
RequestTools ==
    {"get-GLEIF-verification-with-sign",
     "execute-composed-proof-full-kyc",
     "does-not-exist"}

\* Messages of the errors the program raises.
UnknownToolMsg == "Unknown tool"
ArtifactMissingMsg == "Compiled JavaScript file not found"
NotImplementedMsg == "Direct execution not implemented for tool"
FunctionMissingMsg == "function not found in module"
ImportFailedMsg == "module import failed"
CapabilityMsg == "capability raised"
SendFailedMsg == "send failed"
TimeoutMsg == "Direct execution timeout"

---------------------------------------------------------------------------
\* The Job record and its updates.

NoResult ==
    [defined |-> FALSE, success |-> FALSE, status |-> "", error |-> NoError,
     verified |-> FALSE, executionTimeMs |-> 0]

\* startJob: the Job literal.
NewJob(id, toolName, t) ==
    [id |-> id, toolName |-> toolName, status |-> "pending", startTime |-> t,
     endTime |-> Undefined, result |-> NoResult, error |-> NoError,
     progress |-> Undefined]

\* processJob: job.status = 'running'; job.progress = 0.
JobRunning(job) == [job EXCEPT !.status = "running", !.progress = 0]

\* processJob: job.progress = 10.
JobProgress10(job) == [job EXCEPT !.progress = 10]

\* The success path, mutated: progress is left as it was.
JobCompletedProgressKept(job, res, started, t) ==
    [job EXCEPT !.status = "completed",
                !.result = [res EXCEPT !.executionTimeMs = t - started],
                !.endTime = t]

\* processJob after executeTool returned res: the success path.
JobCompleted(job, res, started, t) ==
    [job EXCEPT !.status = "completed",
                !.result = [res EXCEPT !.executionTimeMs = t - started],
                !.endTime = t,
                !.progress = 100]

\* The catch block of processJob, mutated: endTime is not recorded.
JobFailedNoEndTime(job, msg, t) ==
    [job EXCEPT !.status = "failed", !.error = msg]

\* processJob: the catch block.
JobFailed(job, msg, t) ==
    [job EXCEPT !.status = "failed", !.error = msg, !.endTime = t]

\* executeTool: the value returned from its catch block.
ToolFailure(msg) ==
    [defined |-> TRUE, success |-> FALSE, status |-> "failed", error |-> msg,
     verified |-> FALSE, executionTimeMs |-> 0]

\* The value executeTool returns, mutated: success is the capability's flag.
ToolSuccessFromFlag(flag) ==
    [defined |-> TRUE, success |-> flag, status |-> "completed",
     error |-> NoError, verified |-> flag, executionTimeMs |-> 0]

\* executeTool: the value returned when executeDirectly returned; flag is
\* the success flag of the capability's own return value.
ToolSuccess(flag) ==
    [defined |-> TRUE, success |-> TRUE, status |-> "completed",
     error |-> NoError, verified |-> flag, executionTimeMs |-> 0]

---------------------------------------------------------------------------
\* Events.

\* broadcastJobUpdate, mutated: the message carries a stale status.
JobUpdateStaleStatus(job, o) ==
    [type |-> "job_update", jobId |-> job.id, status |-> "pending",
     progress |-> job.progress, error |-> job.error,
     success |-> job.result.success, obj |-> o]

\* broadcastJobUpdate: the message built from the job; o is the Job object
\* whose driving task (or startJob call) publishes it.
JobUpdate(job, o) ==
    [type |-> "job_update", jobId |-> job.id, status |-> job.status,
     progress |-> job.progress, error |-> job.error,
     success |-> job.result.success, obj |-> o]

\* broadcastExecutionUpdate: an execution_update message.
ExecutionUpdate(type, msg, o) ==
    [type |-> type, jobId |-> NoId, status |-> "", progress |-> Undefined,
     error |-> msg, success |-> FALSE, obj |-> o]

SomeClientOpen == \E c \in 1..NumClients : clients[c] = "open"

IsTerminal(st) == st \in {"completed", "failed"}

---------------------------------------------------------------------------
\* Initial state: the process has started, no request has been served.

Init ==
    /\ objs = <<>>
    /\ jobs = <<>>
    /\ task = <<>>
    /\ published = <<>>
    /\ clients = [c \in 1..NumClients |-> "closed"]
    /\ now = 0
    /\ proc = "running"
    /\ escaped = <<>>
    /\ generated = <<>>
    /\ cleared = {}
    \* no socket has connected, nothing was broadcast
    /\ wssClients = <<>>
    /\ readyState = [c \in 1..MaxSubscribers |-> "none"]
    /\ received = [c \in 1..MaxSubscribers |-> <<>>]
    /\ sends = <<>>
    \* console.log is the runtime's own, executeDirectly was never called
    /\ consoleLog = 0
    /\ invocations = <<>>
    /\ written = <<>>
    /\ emitted = <<>>
    /\ sink = <<>>
    \* the executor is constructed, initialize has not been called
    /\ startup = [pc |-> "constructed", health |-> "unknown", raised |-> FALSE]
    /\ calls = <<>>
    \* the executor with the spawned-process mode is not constructed yet
    /\ config = [constructed |-> FALSE, executionMode |-> "direct",
                 ACTUS_SERVER_URL |-> ""]
    /\ executions = <<>>
    /\ children = <<>>

---------------------------------------------------------------------------
\* The driving task.

\* State of a driving task: pc is where processJob / executeTool is
\* suspended, timer the setTimeout of executeDirectly, returned the status
\* the caller of startJob read from the Job it got back ("error" when
\* startJob raised), started the Date.now() taken before executeTool, and
\* failure the message of the error executeTool ended with.
Task(pc, timer, deadline, returned, started, failure) ==
    [pc |-> pc, timer |-> timer, deadline |-> deadline, returned |-> returned,
     started |-> started, failure |-> failure]

\* The final broadcastJobUpdate of processJob is outside its try block: a
\* send that raises there rejects the promise of processJob, which nobody
\* awaits.  g says whether that happens.
Rejection(o, g) ==
    IF g THEN <<[kind |-> "unhandledRejection", obj |-> o, msg |-> SendFailedMsg]>>
         ELSE <<>>

\* What an unhandled rejection does to the process depends on the runtime:
\* it terminates it or only warns.
AfterRejection(g) == IF g THEN {"running", "terminated"} ELSE {"running"}

\* The synchronous part of executeIntegratedTool / executeCompiledScript:
\* the error raised before executeDirectly is entered, if any.
SyncError(toolName, exists) ==
    IF toolName \notin DOMAIN toolScriptMap THEN UnknownToolMsg
    ELSE IF ~exists THEN ArtifactMissingMsg
    ELSE NoError

\* POST /api/v1/tools/execute-async: startJob with everything it runs before
\* the request's macrotask ends.  processJob is called without await, so it
\* runs up to its first suspension inside startJob.
\*   jobId   the caller's id, NoId when the body has none
\*   r       the draw of Math.random(); a draw is an earlier draw again or
\*           a new value, and the new values are taken in increasing order
\*   exists  existsSync(compiledScriptPath)
\*   f       which broadcastJobUpdate raises: 0 none, 1 the one of startJob,
\*           2 the first of processJob, 3 the second of processJob
\*   g       whether the final broadcastJobUpdate of processJob raises
StartJob(toolName, jobId, r, exists, f, g) ==
    LET id == IF jobId # NoId THEN jobId ELSE generateJobId(now, r)
        o == Len(objs) + 1
        j0 == NewJob(id, toolName, now)
        j1 == JobRunning(j0)
        j2 == JobProgress10(j1)
        e0 == JobUpdate(j0, o)
        e1 == JobUpdate(j1, o)
        e2 == JobUpdate(j2, o)
        err == SyncError(toolName, exists)
        jf == JobFailed(IF f = 2 THEN j1 ELSE j2, SendFailedMsg, now)
        jc == JobCompleted(j2, ToolFailure(err), now, now)
        final == f \in {2, 3} \/ (f = 0 /\ err # NoError)
        job == CASE f = 1 -> j0
                 [] f \in {2, 3} -> jf
                 [] f = 0 /\ err # NoError -> jc
                 [] OTHER -> j2
        evs == CASE f = 1 -> <<e0>>
                 [] f = 2 -> <<e0, e1, JobUpdate(jf, o)>>
                 [] f = 3 -> <<e0, e1, e2, JobUpdate(jf, o)>>
                 [] f = 0 /\ err # NoError -> <<e0, e1, e2, JobUpdate(jc, o)>>
                 [] OTHER -> <<e0, e1, e2,
                               ExecutionUpdate("execution_started", "", o)>>
        t == CASE f = 1 -> Task("unstarted", "none", 0, "error", now, NoError)
               [] final -> Task(IF g THEN "rejected" ELSE "done", "none", 0,
                                IF f = 0 THEN "running" ELSE "failed",
                                now, err)
               [] OTHER -> Task("awaitImport", "armed", now + timeout,
                                "running", now, NoError)
    IN  /\ proc = "running"
        /\ Len(objs) < MaxJobs
        /\ jobId # NoId => r = 0
        /\ r <= Len(generated)
        /\ (f # 0 \/ toolName \notin DOMAIN toolScriptMap) => exists
        /\ f # 0 => SomeClientOpen
        /\ g => final /\ SomeClientOpen
        /\ objs' = Append(objs, job)
        /\ jobs' = [i \in DOMAIN jobs \cup {id} |-> IF i = id THEN o ELSE jobs[i]]
        /\ task' = Append(task, t)
        /\ published' = published \o evs
        /\ generated' = IF jobId = NoId THEN Append(generated, id) ELSE generated
        /\ escaped' = escaped \o Rejection(o, g)
        /\ proc' \in AfterRejection(g)
        /\ UNCHANGED <<spawnVars, fanoutVars, consoleVars, toolVars,
                   clients, now, cleared>>

\* A driving task resumes: the Job object becomes job, evs are published,
\* the task's state becomes t, and g says whether the final broadcast raised.
Resume(o, job, evs, t, g) ==
    /\ g => SomeClientOpen
    /\ objs' = [objs EXCEPT ![o] = job]
    /\ task' = [task EXCEPT ![o] = [t EXCEPT !.pc = IF g THEN "rejected" ELSE t.pc]]
    /\ published' = published \o evs
    /\ escaped' = escaped \o Rejection(o, g)
    /\ proc' \in AfterRejection(g)
    /\ UNCHANGED <<spawnVars, fanoutVars, consoleVars, toolVars,
                   jobs, clients, now, generated, cleared>>

\* The failure path, mutated: processJob returns without its final
\* broadcastJobUpdate.
ExecutionFailsUnpublished(o, msg, g) ==
    LET jc == JobCompleted(objs[o], ToolFailure(msg), task[o].started, now)
    IN  Resume(o, jc, <<ExecutionUpdate("execution_failed", msg, o)>>,
               [task[o] EXCEPT !.pc = "done", !.failure = msg], g)

\* An error raised inside the inner try of executeDirectly: the finally
\* block restores the console, the catch block publishes execution_failed
\* and rethrows, executeTool turns the error into a returned value, and
\* processJob takes its success path.  clearTimeout is not reached.
ExecutionFails(o, msg, g) ==
    LET jc == JobCompleted(objs[o], ToolFailure(msg), task[o].started, now)
    IN  Resume(o, jc,
               <<ExecutionUpdate("execution_failed", msg, o), JobUpdate(jc, o)>>,
               [task[o] EXCEPT !.pc = "done", !.failure = msg], g)

\* await import(fileUrl.href) settles, and the switch on toolName runs up
\* to the call of the capability.
ImportSettles(o, outcome, g) ==
    LET bound == objs[o].toolName \in DirectBindings
        msg == CASE outcome = "importError" -> ImportFailedMsg
                 [] outcome = "loaded" /\ ~bound -> NotImplementedMsg
                 [] outcome = "noFunction" -> FunctionMissingMsg
                 [] OTHER -> NoError
    IN  /\ proc = "running"
        /\ task[o].pc = "awaitImport"
        /\ outcome = "noFunction" => bound
        /\ IF msg = NoError
           THEN /\ ~g
                /\ task' = [task EXCEPT ![o].pc = "awaitCapability"]
                /\ UNCHANGED <<spawnVars, fanoutVars, consoleVars, toolVars,
                   objs, jobs, published, clients, now, proc,
                               escaped, generated, cleared>>
           ELSE ExecutionFails(o, msg, g)

\* The capability's promise resolves; flag is result.success of its value.
CapabilityReturns(o, flag, g) ==
    LET jc == JobCompleted(objs[o], ToolSuccess(flag), task[o].started, now)
    IN  /\ proc = "running"
        /\ task[o].pc = "awaitCapability"
        /\ Resume(o, jc,
                  <<ExecutionUpdate("execution_completed", "", o), JobUpdate(jc, o)>>,
                  [task[o] EXCEPT !.pc = "done", !.timer = "cleared"], g)

\* The capability's promise rejects.
CapabilityRaises(o, g) ==
    /\ proc = "running"
    /\ task[o].pc = "awaitCapability"
    /\ ExecutionFails(o, CapabilityMsg, g)

\* The setTimeout callback of executeDirectly runs: it throws, in a timer
\* macrotask of its own, outside every try block and every promise.
TimerFires(o) ==
    /\ proc = "running"
    /\ task[o].timer = "armed"
    /\ now >= task[o].deadline
    /\ task' = [task EXCEPT ![o].timer = "fired"]
    /\ escaped' = Append(escaped,
                         [kind |-> "uncaughtException", obj |-> o, msg |-> TimeoutMsg])
    /\ proc' = "terminated"
    /\ UNCHANGED <<spawnVars, fanoutVars, consoleVars, toolVars,
                   objs, jobs, published, clients, now, generated, cleared>>

---------------------------------------------------------------------------
\* The other requests and the environment.

\* getJob(jobId): the Job object the Map holds for the id.
getJob(id) == objs[jobs[id]]

getAllJobs == {getJob(id) : id \in DOMAIN jobs}

getActiveJobs == {j \in getAllJobs : j.status \in {"pending", "running"}}

\* clearCompletedJobs, mutated: every Job is removed, whatever its status.
clearEveryJob ==
    /\ proc = "running"
    /\ jobs' = <<>>
    /\ cleared' = cleared \cup {jobs[id] : id \in DOMAIN jobs}
    /\ UNCHANGED <<spawnVars, fanoutVars, consoleVars, toolVars,
                   objs, task, published, clients, now, proc, escaped,
                   generated>>

\* clearCompletedJobs, mutated: it waits until no capability is in flight.
clearCompletedWhenIdle ==
    /\ proc = "running"
    /\ \A o \in 1..Len(task) : task[o].pc # "awaitCapability"
    /\ LET keep == {id \in DOMAIN jobs : ~IsTerminal(objs[jobs[id]].status)}
       IN  /\ jobs' = [id \in keep |-> jobs[id]]
           /\ cleared' = cleared \cup {jobs[id] : id \in DOMAIN jobs \ keep}
    /\ UNCHANGED <<spawnVars, fanoutVars, consoleVars, toolVars, objs, task, published, clients,
                   now, proc, escaped, generated>>

\* clearCompletedJobs, mutated: failed Jobs are kept.
clearCompletedOnly ==
    /\ proc = "running"
    /\ LET keep == {id \in DOMAIN jobs : objs[jobs[id]].status # "completed"}
       IN  /\ jobs' = [id \in keep |-> jobs[id]]
           /\ cleared' = cleared \cup {jobs[id] : id \in DOMAIN jobs \ keep}
    /\ UNCHANGED <<spawnVars, fanoutVars, consoleVars, toolVars,
                   objs, task, published, clients, now, proc, escaped,
                   generated>>

clearCompletedJobs ==
    /\ proc = "running"
    /\ LET keep == {id \in DOMAIN jobs : ~IsTerminal(objs[jobs[id]].status)}
       IN  /\ jobs' = [id \in keep |-> jobs[id]]
           /\ cleared' = cleared \cup {jobs[id] : id \in DOMAIN jobs \ keep}
    /\ UNCHANGED <<spawnVars, fanoutVars, consoleVars, toolVars,
                   objs, task, published, clients, now, proc, escaped,
                   generated>>

\* A WebSocket client connects.
Connect(c) ==
    /\ proc = "running"
    /\ clients[c] = "closed"
    /\ clients' = [clients EXCEPT ![c] = "open"]
    /\ UNCHANGED <<spawnVars, fanoutVars, consoleVars, toolVars,
                   objs, jobs, task, published, now, proc, escaped, generated,
                   cleared>>

\* A WebSocket client closes.
Close(c) ==
    /\ proc = "running"
    /\ clients[c] = "open"
    /\ clients' = [clients EXCEPT ![c] = "closed"]
    /\ UNCHANGED <<spawnVars, fanoutVars, consoleVars, toolVars,
                   objs, jobs, task, published, now, proc, escaped, generated,
                   cleared>>

\* Time passes.
Tick ==
    /\ proc = "running"
    /\ now < MaxClock
    /\ now' = now + 1
    /\ UNCHANGED <<spawnVars, fanoutVars, consoleVars, toolVars,
                   objs, jobs, task, published, clients, proc, escaped,
                   generated, cleared>>

Next ==
    \/ \E toolName \in RequestTools, jobId \in CallerIds \cup {NoId},
          r \in 0..MaxRandom, exists \in BOOLEAN, f \in 0..3, g \in BOOLEAN :
          StartJob(toolName, jobId, r, exists, f, g)
    \/ \E o \in 1..Len(objs), g \in BOOLEAN,
          outcome \in {"loaded", "importError", "noFunction"} :
          ImportSettles(o, outcome, g)
    \/ \E o \in 1..Len(objs), flag \in BOOLEAN, g \in BOOLEAN :
          CapabilityReturns(o, flag, g)
    \/ \E o \in 1..Len(objs), g \in BOOLEAN : CapabilityRaises(o, g)
    \/ \E o \in 1..Len(objs) : TimerFires(o)
    \/ clearCompletedJobs
    \/ \E c \in 1..NumClients : Connect(c)
    \/ \E c \in 1..NumClients : Close(c)
    \/ Tick

Spec == Init /\ [][Next]_vars

---------------------------------------------------------------------------
\* The fan-out of a broadcast.  Every socket is one WebSocket connection:
\* it connects once ("none" to "open"), may start closing, and is removed
\* from wss.clients when it has closed.

\* The message the connection handler sends, its reply to a
\* subscribe_state_monitoring message, and the message of the n-th
\* broadcast call.
ConnectionMessage == [type |-> "connection", n |-> 0]
SubscribedMessage == [type |-> "state_monitoring_subscribed", n |-> 0]
EventMessage(n) == [type |-> "event", n |-> n]

\* The sockets whose readyState is OPEN (1).
OpenSockets == {c \in 1..MaxSubscribers : readyState[c] = "open"}

\* Position of socket c in the iteration order of wss.clients.
Position(c) == CHOOSE i \in 1..Len(wssClients) : wssClients[i] = c

\* clients.forEach(client => { if (client.readyState === 1)
\* client.send(message) }) where the send to socket k raises (k = 0: none
\* does): the exception leaves forEach, so the open sockets before k got the
\* message and k and the sockets after it did not.
ForEachSend(msg, k) ==
    [c \in 1..MaxSubscribers |->
        IF c \in OpenSockets /\ (k = 0 \/ Position(c) < Position(k))
        THEN Append(received[c], msg)
        ELSE received[c]]

\* One broadcast call as the publisher sees it: the sockets that were open
\* and those that had connected when it was made, the socket whose send
\* raised, and whether the exception reached the caller.
Send(by, k, raised) ==
    [by |-> by, open |-> OpenSockets,
     connected |-> {c \in 1..MaxSubscribers : readyState[c] # "none"},
     failed |-> k, raised |-> raised]

\* wss.on('connection'), mutated: the handler also sends the events
\* broadcast so far.
ConnectionReplays(c) ==
    /\ readyState[c] = "none"
    /\ \A d \in 1..(c - 1) : readyState[d] # "none"
    /\ readyState' = [readyState EXCEPT ![c] = "open"]
    /\ wssClients' = Append(wssClients, c)
    /\ received' = [received EXCEPT ![c] =
                       <<ConnectionMessage>> \o
                       [n \in 1..Len(sends) |-> EventMessage(n)]]
    /\ UNCHANGED <<spawnVars, sends, serverVars, consoleVars, toolVars>>

\* wss.on('connection'): the socket joins wss.clients and is sent the
\* connection message.  Sockets connect in the order of their numbers.
Connection(c) ==
    /\ readyState[c] = "none"
    /\ \A d \in 1..(c - 1) : readyState[d] # "none"
    /\ readyState' = [readyState EXCEPT ![c] = "open"]
    /\ wssClients' = Append(wssClients, c)
    /\ received' = [received EXCEPT ![c] = <<ConnectionMessage>>]
    /\ UNCHANGED <<spawnVars, sends, serverVars, consoleVars, toolVars>>

\* ws.on('message') for a subscribe_state_monitoring message: the handler
\* replies to the sender.
OnMessage(c) ==
    /\ readyState[c] = "open"
    /\ Cardinality({d \in 1..MaxSubscribers :
                       \E i \in 1..Len(received[d]) :
                           received[d][i] = SubscribedMessage}) < MaxRequests
    /\ received' = [received EXCEPT ![c] = Append(@, SubscribedMessage)]
    /\ UNCHANGED <<spawnVars, wssClients, readyState, sends, serverVars, consoleVars, toolVars>>

\* The closing handshake of a socket starts: readyState is CLOSING (2) and
\* the socket is still in wss.clients.
SocketClosing(c) ==
    /\ readyState[c] = "open"
    /\ readyState' = [readyState EXCEPT ![c] = "closing"]
    /\ UNCHANGED <<spawnVars, wssClients, received, sends, serverVars, consoleVars, toolVars>>

\* The socket has closed: the server removes it from wss.clients.
SocketClosed(c) ==
    /\ readyState[c] \in {"open", "closing"}
    /\ readyState' = [readyState EXCEPT ![c] = "closed"]
    /\ wssClients' = SelectSeq(wssClients, LAMBDA d : d # c)
    /\ UNCHANGED <<spawnVars, received, sends, serverVars, consoleVars, toolVars>>

\* AsyncJobManager.broadcastJobUpdate: no try/catch, an exception of a send
\* is raised to the caller.
broadcastJobUpdate(k) ==
    /\ Len(sends) < MaxPublishes
    /\ k = 0 \/ k \in OpenSockets
    /\ received' = ForEachSend(EventMessage(Len(sends) + 1), k)
    /\ sends' = Append(sends, Send("broadcastJobUpdate", k, k # 0))
    /\ UNCHANGED <<spawnVars, wssClients, readyState, serverVars, consoleVars, toolVars>>

\* ZKToolExecutor.broadcastExecutionUpdate: the forEach is inside a
\* try/catch that logs the exception of a send and returns.
broadcastExecutionUpdate(k) ==
    /\ Len(sends) < MaxPublishes
    /\ k = 0 \/ k \in OpenSockets
    /\ received' = ForEachSend(EventMessage(Len(sends) + 1), k)
    /\ sends' = Append(sends, Send("broadcastExecutionUpdate", k, FALSE))
    /\ UNCHANGED <<spawnVars, wssClients, readyState, serverVars, consoleVars, toolVars>>

FanoutNext ==
    \/ \E c \in 1..MaxSubscribers : Connection(c)
    \/ \E c \in 1..MaxSubscribers : OnMessage(c)
    \/ \E c \in 1..MaxSubscribers : SocketClosing(c)
    \/ \E c \in 1..MaxSubscribers : SocketClosed(c)
    \/ \E k \in 0..MaxSubscribers : broadcastJobUpdate(k)
    \/ \E k \in 0..MaxSubscribers : broadcastExecutionUpdate(k)

FanoutSpec == Init /\ [][FanoutNext]_vars

---------------------------------------------------------------------------
\* The console redirect of executeDirectly and its interceptor.

\* A line is what the tests of the interceptor see of it: whether it
\* includes the state-before and the state-after marker, and for each of the
\* three labels what follows it: the label is Absent, is followed by
\* NoDigits (includes() holds, the regular expression does not match), or is
\* followed by digits, which the regular expression captures.
Absent == ""
NoDigits == "n/a"

BeforeMarker ==
    [before |-> TRUE, after |-> FALSE, total |-> Absent, compliant |-> Absent,
     score |-> Absent]

AfterMarker ==
    [before |-> FALSE, after |-> TRUE, total |-> Absent, compliant |-> Absent,
     score |-> Absent]

OtherLine ==
    [before |-> FALSE, after |-> FALSE, total |-> Absent,
     compliant |-> Absent, score |-> Absent]

TotalCompanies(v) == [OtherLine EXCEPT !.total = v]

CompliantCompanies(v) == [OtherLine EXCEPT !.compliant = v]

GlobalComplianceScore(v) == [OtherLine EXCEPT !.score = v]

\* The lines a capability writes.
Lines ==
    {BeforeMarker, AfterMarker, OtherLine, TotalCompanies("7"),
     TotalCompanies("8"), TotalCompanies(NoDigits), CompliantCompanies("5"),
     GlobalComplianceScore("80")}

\* The lines the capabilities of overlapping invocations write.
OverlapLines == {BeforeMarker, TotalCompanies("7"), OtherLine}

\* output.match(/<label>: (\d+)/) succeeds.
Matches(v) == v # Absent /\ v # NoDigits

\* A call of console.log: the text, the invocation on whose behalf it was
\* written, whether the capability or the executor wrote it, and how often
\* an interceptor has passed it on as ('📤 STDOUT:', output).
Output(n, from, text) == [by |-> n, from |-> from, text |-> text, hops |-> 0]

Forwarded(out) == [out EXCEPT !.hops = @ + 1]

\* capturedBeforeState / capturedAfterState before a snapshot is created.
Null == [null |-> TRUE]

\* The snapshot, mutated: the completing line attaches no default field.
CompleteWithoutDefaults(snap, v, verifications, hash) ==
    ("globalComplianceScore" :> v) @@ snap

\* The completing line: the score and the three default fields are attached.
Complete(snap, v, verifications, hash) ==
    ("globalComplianceScore" :> v) @@
    ("totalVerificationsGlobal" :> verifications) @@
    ("registryVersion" :> "1") @@ ("companiesRootHash" :> hash) @@ snap

\* What an interceptor hands to broadcastExecutionUpdate.
PhaseUpdate(n, phase) ==
    [type |-> "phase_update", by |-> n, phase |-> phase, data |-> Null]

StateCaptured(n, type, snap) ==
    [type |-> type, by |-> n, phase |-> "", data |-> snap]

\* What executeDirectly itself hands to broadcastExecutionUpdate.
ExecutionStarted(n) ==
    [type |-> "execution_started", by |-> n,
     phase |-> "before_state_process", data |-> Null]

ExecutionEnded(n, outcome) ==
    [type |-> IF outcome = "returned" THEN "execution_completed"
              ELSE "execution_failed",
     by |-> n, phase |-> "", data |-> Null]

\* The pattern tests, mutated: the second pattern creates the snapshot too.
CaptureCreatesOnAnyPattern(snap, text, verifications, hash) ==
    LET s1 == IF Matches(text.total) /\ snap = Null
              THEN [totalCompaniesTracked |-> text.total]
              ELSE snap
        s2 == IF Matches(text.compliant)
              THEN ("compliantCompaniesCount" :> text.compliant) @@
                   (IF s1 = Null THEN <<>> ELSE s1)
              ELSE s1
        completes == Matches(text.score) /\ s2 # Null
    IN  [snap |-> IF completes
                  THEN Complete(s2, text.score, verifications, hash)
                  ELSE s2,
         completes |-> completes]

\* The three pattern tests of a capturing phase on one line.  snap is the
\* snapshot of the phase; the result is the snapshot after the line and
\* whether the line completed it.
Capture(snap, text, verifications, hash) ==
    LET s1 == IF Matches(text.total) /\ snap = Null
              THEN [totalCompaniesTracked |-> text.total]
              ELSE snap
        s2 == IF Matches(text.compliant) /\ s1 # Null
              THEN ("compliantCompaniesCount" :> text.compliant) @@ s1
              ELSE s1
        completes == Matches(text.score) /\ s2 # Null
    IN  [snap |-> IF completes
                  THEN Complete(s2, text.score, verifications, hash)
                  ELSE s2,
         completes |-> completes]

\* The interceptor of invocation n called with one output: v are the locals
\* of the invocation.  The result is the locals after the call and the
\* events it broadcast.
Intercept(n, v, out) ==
    LET text == out.text
        p1 == IF text.before THEN "before_state_capturing" ELSE v.currentPhase
        e1 == IF text.before
              THEN <<PhaseUpdate(n, "before_state_capturing")>> ELSE <<>>
        b  == IF p1 = "before_state_capturing"
              THEN Capture(v.capturedBeforeState, text, "0", "initial-hash")
              ELSE [snap |-> v.capturedBeforeState, completes |-> FALSE]
        p2 == IF b.completes THEN "verification_process" ELSE p1
        e2 == IF b.completes
              THEN <<StateCaptured(n, "before_state_captured", b.snap),
                     PhaseUpdate(n, "verification_process")>>
              ELSE <<>>
        p3 == IF text.after THEN "after_state_capturing" ELSE p2
        e3 == IF text.after
              THEN <<PhaseUpdate(n, "after_state_capturing")>> ELSE <<>>
        a  == IF p3 = "after_state_capturing"
              THEN Capture(v.capturedAfterState, text, "1", "updated-hash")
              ELSE [snap |-> v.capturedAfterState, completes |-> FALSE]
        p4 == IF a.completes THEN "execution_completing" ELSE p3
        e4 == IF a.completes
              THEN <<StateCaptured(n, "after_state_captured", a.snap)>>
              ELSE <<>>
    IN  [locals |-> [v EXCEPT !.stdout = Append(@, out),
                              !.currentPhase = p4,
                              !.phases = Append(@, p4),
                              !.capturedBeforeState = b.snap,
                              !.capturedAfterState = a.snap],
         events |-> e1 \o e2 \o e3 \o e4]

\* console.log(out) while console.log is bound to b: the runtime's own
\* console.log (0) prints the line; the interceptor of invocation b
\* processes it and then calls the console.log it saved when it was
\* installed.  c is the state of the console so far.
RECURSIVE CallConsoleLog(_, _, _)
CallConsoleLog(b, out, c) ==
    IF b = 0
    THEN [c EXCEPT !.sink = Append(@, out)]
    ELSE LET r == Intercept(b, c.invocations[b], out)
         IN  CallConsoleLog(c.invocations[b].originalConsoleLog,
                            Forwarded(out),
                            [c EXCEPT !.invocations[b] = r.locals,
                                      !.emitted = @ \o r.events])

\* The state of the console as CallConsoleLog threads it.
Console ==
    [invocations |-> invocations, emitted |-> emitted, sink |-> sink]

\* executeDirectly up to its first await: the debug banner is logged,
\* execution_started is broadcast, console.log is saved and replaced.
InstallInterceptor(n) ==
    /\ n = Len(invocations) + 1
    /\ LET c == CallConsoleLog(consoleLog, Output(n, "executor", OtherLine),
                               Console)
       IN  /\ invocations' =
                  Append(c.invocations,
                         [pc |-> "running",
                          originalConsoleLog |-> consoleLog,
                          currentPhase |-> "before_state_process",
                          capturedBeforeState |-> Null,
                          capturedAfterState |-> Null,
                          stdout |-> <<>>,
                          phases |-> <<>>,
                          result |-> Null,
                          response |-> Null])
           /\ emitted' = Append(c.emitted, ExecutionStarted(n))
           /\ sink' = c.sink
    /\ consoleLog' = n
    /\ UNCHANGED <<spawnVars, written, serverVars, fanoutVars, toolVars>>

\* The capability of invocation n calls console.log(text); max bounds the
\* lines written in a run.
CapabilityLogs(n, text, max) ==
    /\ n \in 1..Len(invocations)
    /\ invocations[n].pc = "running"
    /\ Len(written) < max
    /\ LET out == Output(n, "capability", text)
           c == CallConsoleLog(consoleLog, out, Console)
       IN  /\ written' = Append(written, out)
           /\ invocations' = c.invocations
           /\ emitted' = c.emitted
           /\ sink' = c.sink
    /\ UNCHANGED <<spawnVars, consoleLog, serverVars, fanoutVars, toolVars>>

\* What a capability returns: an object with its own success flag.
CapabilityResults == {[success |-> TRUE], [success |-> FALSE]}

\* The response, mutated: success is taken from what the interceptor
\* captured.
ResponseFromCapture(v, outcome, result) ==
    IF outcome = "returned"
    THEN [success |-> v.capturedBeforeState # Null,
          verificationResult |-> result.success,
          result |-> result,
          contractStateBefore |-> v.capturedBeforeState,
          contractStateAfter |-> v.capturedAfterState]
    ELSE [success |-> FALSE, verificationResult |-> FALSE, result |-> Null,
          contractStateBefore |-> Null, contractStateAfter |-> Null]

\* What executeDirectly hands back: the response built around the value
\* the capability returned, or nothing when it raised.
Response(v, outcome, result) ==
    IF outcome = "returned"
    THEN [success |-> TRUE,
          verificationResult |-> result.success,
          result |-> result,
          contractStateBefore |-> v.capturedBeforeState,
          contractStateAfter |-> v.capturedAfterState]
    ELSE [success |-> FALSE, verificationResult |-> FALSE, result |-> Null,
          contractStateBefore |-> Null, contractStateAfter |-> Null]

\* The rest of executeDirectly after the inner try ended with outcome: the
\* finally block restores console.log to the saved one, then the completion
\* (or failure) is broadcast and logged and the response built; result is
\* what the capability returned.
Restore(n, outcome, result) ==
    /\ n \in 1..Len(invocations)
    /\ invocations[n].pc = "running"
    /\ consoleLog' = invocations[n].originalConsoleLog
    /\ LET v == invocations[n]
           c == CallConsoleLog(v.originalConsoleLog,
                               Output(n, "executor", OtherLine),
                               [Console EXCEPT
                                   !.emitted =
                                       Append(@, ExecutionEnded(n, outcome)),
                                   !.invocations[n].pc = outcome,
                                   !.invocations[n].result = result,
                                   !.invocations[n].response =
                                       Response(v, outcome, result)])
       IN  /\ invocations' = c.invocations
           /\ emitted' = c.emitted
           /\ sink' = c.sink
    /\ UNCHANGED <<spawnVars, written, serverVars, fanoutVars, toolVars>>

\* The capability returns / raises.
RestoreOnReturn(n) ==
    \E result \in CapabilityResults : Restore(n, "returned", result)

RestoreOnRaise(n) == Restore(n, "raised", Null)

\* One invocation and the lines of its capability.
ExtractNext ==
    \/ InstallInterceptor(1)
    \/ \E text \in Lines : CapabilityLogs(1, text, MaxLines)
    \/ RestoreOnReturn(1)
    \/ RestoreOnRaise(1)

ExtractSpec == Init /\ [][ExtractNext]_vars

\* Invocations that overlap.
ConsoleNext ==
    \/ \E n \in 1..MaxInvocations : InstallInterceptor(n)
    \/ \E n \in 1..MaxInvocations, text \in OverlapLines :
           CapabilityLogs(n, text, MaxOverlapLines)
    \/ \E n \in 1..MaxInvocations : RestoreOnReturn(n)
    \/ \E n \in 1..MaxInvocations : RestoreOnRaise(n)

ConsoleSpec == Init /\ [][ConsoleNext]_vars

---------------------------------------------------------------------------
\* Vocabulary of the properties.

Objs == 1..Len(objs)

InRegistry(o) == objs[o].id \in DOMAIN jobs /\ jobs[objs[o].id] = o

Ended(o) == task[o].pc \in {"done", "rejected"}

IsJobUpdate(e) == e.type = "job_update"

\* The job_update events the driving task of Job object o has published.
JobUpdatesOf(o) == SelectSeq(published, LAMBDA e : IsJobUpdate(e) /\ e.obj = o)

\* The statuses carried by the job_update events with jobId id, in order.
StatusesOf(id) ==
    LET evs == SelectSeq(published, LAMBDA e : IsJobUpdate(e) /\ e.jobId = id)
    IN  [i \in 1..Len(evs) |-> evs[i].status]

\* s without the repetitions of an element next to itself.
RECURSIVE Distinct(_)
Distinct(s) ==
    IF Len(s) <= 1 THEN s
    ELSE IF s[1] = s[2] THEN Distinct(Tail(s))
    ELSE <<s[1]>> \o Distinct(Tail(s))

IsPrefix(s, t) == Len(s) <= Len(t) /\ \A i \in 1..Len(s) : s[i] = t[i]

Monotonic(s) ==
    \/ IsPrefix(Distinct(s), <<"pending", "running", "completed">>)
    \/ IsPrefix(Distinct(s), <<"pending", "running", "failed">>)

---------------------------------------------------------------------------
\* The properties.

\* C1: for every job id, the distinct statuses observed for it, through the
\* job_update events carrying the id and then through getJob(id), are a
\* prefix of [pending, running, completed] or of [pending, running, failed].
C1_StatusesMonotonicPerId ==
    \A id \in {objs[o].id : o \in Objs} :
        /\ Monotonic(StatusesOf(id))
        /\ id \in DOMAIN jobs =>
               Monotonic(Append(StatusesOf(id), getJob(id).status))

\* C2: when executeTool failed for a job in flight (artifact missing,
\* capability raised), the driving task ends with status failed and
\* Job.error equal to the failure's message, and the last job_update it
\* published carries status failed and that error.
C2_ToolFailureFailsJob ==
    \A o \in Objs :
        (Ended(o) /\ task[o].failure \in {ArtifactMissingMsg, CapabilityMsg}) =>
            /\ objs[o].status = "failed"
            /\ objs[o].error = task[o].failure
            /\ LET ups == JobUpdatesOf(o)
               IN  /\ ups # <<>>
                   /\ ups[Len(ups)].status = "failed"
                   /\ ups[Len(ups)].error = task[o].failure

\* C3: the Job that startJob hands back has status pending when startJob
\* returns.
C3_ReturnedJobIsPending ==
    \A o \in Objs : task[o].returned \in {"pending", "error"}

\* C4: when the timeout elapsed while the capability had not returned, the
\* job ends with status failed and an error that mentions the timeout (the
\* state in which the process has terminated is the job's last state).
C4_TimeoutFailsJob ==
    \A o \in Objs :
        (task[o].pc = "awaitCapability" /\ task[o].timer = "fired"
            /\ proc = "terminated") =>
            /\ objs[o].status = "failed"
            /\ objs[o].error = TimeoutMsg

\* C5: no exception raised while a job is driven escapes as an uncaught
\* exception or an unhandled rejection.
C5_NothingEscapes == escaped = <<>>

\* C6: a job whose capability invocation returned has status completed,
\* result and endTime set and progress 100, and getJob(id) returns that
\* record unless clearCompletedJobs removed it.
C6_ReturnedCapabilityCompletesJob ==
    \A o \in Objs :
        (Ended(o) /\ task[o].timer = "cleared") =>
            /\ objs[o].status = "completed"
            /\ objs[o].result.defined
            /\ objs[o].endTime # Undefined
            /\ objs[o].progress = 100
            /\ (InRegistry(o) /\ getJob(objs[o].id) = objs[o]) \/ o \in cleared

\* C7: a startJob request with a toolName outside the catalog is rejected
\* to its caller, leaves no Job in the registry and publishes no event.
C7_UnknownToolCreatesNoJob ==
    \A o \in Objs :
        objs[o].toolName \notin DOMAIN toolScriptMap =>
            /\ task[o].returned = "error"
            /\ ~InRegistry(o)
            /\ \A i \in 1..Len(published) : published[i].obj # o

\* C8: a Job leaves the registry only through clearCompletedJobs, and all
\* job_update events carrying one id come from one driving task.
C8_IdsUnique ==
    /\ \A o \in Objs : InRegistry(o) \/ o \in cleared
    /\ \A i, j \in 1..Len(published) :
           (IsJobUpdate(published[i]) /\ IsJobUpdate(published[j])
               /\ published[i].jobId = published[j].jobId) =>
               published[i].obj = published[j].obj

\* C9: the ids generateJobId has returned are pairwise distinct.
C9_GeneratedIdsDistinct ==
    \A i, j \in 1..Len(generated) : i # j => generated[i] # generated[j]

\* C10: for every Job in the registry, endTime is set iff the status is
\* terminal, result is set only if completed, error is set only if failed,
\* and progress, when set, is within 0..100 and is 100 only if completed.
C10_FieldsMatchStatus ==
    \A id \in DOMAIN jobs :
        LET j == getJob(id)
        IN  /\ (j.endTime # Undefined) <=> IsTerminal(j.status)
            /\ j.result.defined => j.status = "completed"
            /\ j.error # NoError => j.status = "failed"
            /\ j.progress # Undefined =>
                   /\ j.progress \in 0..100
                   /\ j.progress = 100 => j.status = "completed"

\* C10, its case: the registry holds a completed Job and a failed Job.
C10_Witness ==
    /\ \E id \in DOMAIN jobs : getJob(id).status = "completed"
    /\ \E id \in DOMAIN jobs : getJob(id).status = "failed"

\* The statuses carried by the job_update events of Job object o, in order.
PublishedStatuses(o) ==
    LET ups == JobUpdatesOf(o) IN [i \in 1..Len(ups) |-> ups[i].status]

\* How often status st occurs in the sequence s.
Count(s, st) == Cardinality({i \in 1..Len(s) : s[i] = st})

\* Every status a Job object took was published when it was taken, in the
\* order pending, running, completed | failed, the last one being the
\* Job's current status.
EveryChangePublished(o) ==
    LET s == PublishedStatuses(o)
    IN  /\ s # <<>>
        /\ s[1] = "pending"
        /\ s[Len(s)] = objs[o].status
        /\ Monotonic(s)

\* C11 as stated: every status change of a Job is published, and no status
\* is carried by more than one job_update of the Job.
C11_OnePublishPerStatus ==
    \A o \in Objs :
        /\ EveryChangePublished(o)
        /\ \A st \in {"pending", "running", "completed", "failed"} :
               Count(PublishedStatuses(o), st) <= 1

\* C11 amended: every status change of a Job is published when it happens;
\* pending, completed and failed are carried by one job_update each, and
\* running by at most two (progress 0, then progress 10).
C11_ChangesPublished ==
    \A o \in Objs :
        /\ EveryChangePublished(o)
        /\ \A st \in {"pending", "completed", "failed"} :
               Count(PublishedStatuses(o), st) <= 1
        /\ Count(PublishedStatuses(o), "running") <= 2

\* C11, its case: a Job went through pending, running (published twice) and
\* a terminal status.
C11_Witness ==
    \E o \in Objs :
        /\ IsTerminal(objs[o].status)
        /\ Count(PublishedStatuses(o), "running") = 2

\* C12: when the executeTool call of a job has finished, the last job_update
\* its driving task published carries the job's terminal status, on the
\* success path and on the failure path, and no earlier one does.
C12_FinalPublish ==
    \A o \in Objs :
        (Ended(o) /\ objs[o].result.defined) =>
            LET s == PublishedStatuses(o)
            IN  /\ s # <<>>
                /\ s[Len(s)] = objs[o].status
                /\ IsTerminal(s[Len(s)])
                /\ \A i \in 1..(Len(s) - 1) : ~IsTerminal(s[i])

\* C12, its case: one job ended after its capability returned and another
\* after executeTool failed.
C12_Witness ==
    \E o, q \in Objs :
        /\ Ended(o) /\ objs[o].result.success
        /\ Ended(q) /\ objs[q].result.defined /\ ~objs[q].result.success

\* C13: right after clearCompletedJobs the registry holds only pending and
\* running Jobs, and a Job it removed is never in the registry again.
C13_ClearRemovesTerminal ==
    /\ [][clearCompletedJobs =>
            \A id \in DOMAIN jobs' :
                objs'[jobs'[id]].status \in {"pending", "running"}]_vars
    /\ [](\A o \in cleared : \A id \in DOMAIN jobs : jobs[id] # o)

\* C13, its case: clearCompletedJobs removed a Job and kept an active one.
C13_Witness ==
    /\ cleared # {}
    /\ getActiveJobs # {}

\* C20: a send that raises is not raised to the publisher and changes no
\* job's outcome: startJob does not fail, every started job is driven, no
\* job fails with the send's error, and no driving task is rejected.
C20_SendFailureSwallowed ==
    \A o \in Objs :
        /\ task[o].returned # "error"
        /\ task[o].pc \notin {"unstarted", "rejected"}
        /\ objs[o].error # SendFailedMsg

\* How often the message of the n-th broadcast call was sent to socket c.
Deliveries(c, n) ==
    Cardinality({i \in 1..Len(received[c]) : received[c][i] = EventMessage(n)})

\* C18: every broadcast call delivers its event exactly once to each socket
\* that is open when it is made, not at all to any other socket, and raises
\* nothing to its caller.
C18_FanOut ==
    \A n \in 1..Len(sends) :
        /\ ~sends[n].raised
        /\ \A c \in 1..MaxSubscribers :
               Deliveries(c, n) = IF c \in sends[n].open THEN 1 ELSE 0

\* The first message a socket received is the connection message, and the
\* events it received were broadcast while it was open.
ConnectionThenLiveEvents(c) ==
    /\ received[c] # <<>> => received[c][1] = ConnectionMessage
    /\ \A i \in 2..Len(received[c]) :
           received[c][i].type = "event" =>
               c \in sends[received[c][i].n].open

\* C19 as stated: a socket receives the connection message when it connects
\* and afterwards nothing but events broadcast while it is open.
C19_NoReplay ==
    \A c \in 1..MaxSubscribers :
        /\ ConnectionThenLiveEvents(c)
        /\ \A i \in 2..Len(received[c]) : received[c][i].type = "event"

\* C19 amended: a socket receives the connection message when it connects
\* and afterwards nothing but events broadcast while it is open and the
\* replies to its own subscribe_state_monitoring messages.
C19_NoReplayButReplies ==
    \A c \in 1..MaxSubscribers :
        /\ ConnectionThenLiveEvents(c)
        /\ \A i \in 2..Len(received[c]) :
               received[c][i].type \in {"event", "state_monitoring_subscribed"}

\* C19, its case: a socket connected after the first broadcast, was open at
\* the second, and received the connection message and the second event.
C19_Witness ==
    \E c \in 1..MaxSubscribers :
        /\ Len(sends) = 2
        /\ sends[1].open # {}
        /\ c \notin sends[1].connected
        /\ c \in sends[2].open
        /\ received[c] = <<ConnectionMessage, EventMessage(2)>>

---------------------------------------------------------------------------
\* The stream of one invocation, as its interceptor saw it.

\* The text of the i-th line the interceptor of invocation n processed.
TextAt(n, i) == invocations[n].stdout[i].text

StreamLen(n) == Len(invocations[n].stdout)

\* A line that includes no marker.
NonMarker(text) == ~text.before /\ ~text.after

\* A line that includes no marker and matches no pattern.
NonMatching(text) ==
    /\ ~text.before /\ ~text.after
    /\ ~Matches(text.total) /\ ~Matches(text.compliant) /\ ~Matches(text.score)

\* Lines m < i < j < k of the stream are a marker line, a "Total Companies",
\* a "Compliant Companies" and a "Global Compliance Score" line, and every
\* other line between m and k is non-matching.
MarkerThenPatterns(n, m, i, j, k) ==
    /\ m < i /\ i < j /\ j < k
    /\ TextAt(n, i) \in {TotalCompanies("7"), TotalCompanies("8")}
    /\ TextAt(n, j) = CompliantCompanies("5")
    /\ TextAt(n, k) = GlobalComplianceScore("80")
    /\ \A x \in (m + 1)..(k - 1) : x \notin {i, j} => NonMatching(TextAt(n, x))

\* The snapshot the spec expects from lines i, j, k.
Snapshot(n, i, j, k, verifications, hash) ==
    [totalCompaniesTracked |-> TextAt(n, i).total,
     compliantCompaniesCount |-> TextAt(n, j).compliant,
     globalComplianceScore |-> TextAt(n, k).score,
     totalVerificationsGlobal |-> verifications,
     registryVersion |-> "1",
     companiesRootHash |-> hash]

\* The before and the after snapshot are the expected ones whenever the
\* stream has a marker of the kind, restricted by only(m), followed by the
\* three pattern lines.
SnapshotsAsExpected(n, only(_, _)) ==
    \A m \in 1..StreamLen(n) :
        (~NonMarker(TextAt(n, m)) /\ only(m, TextAt(n, m))) =>
    \A i \in (m + 1)..StreamLen(n) :
        Matches(TextAt(n, i).total) =>
    \A j \in (i + 1)..StreamLen(n) :
        Matches(TextAt(n, j).compliant) =>
    \A k \in (j + 1)..StreamLen(n) :
        MarkerThenPatterns(n, m, i, j, k) =>
            /\ TextAt(n, m) = BeforeMarker =>
                   invocations[n].capturedBeforeState =
                       Snapshot(n, i, j, k, "0", "initial-hash")
            /\ TextAt(n, m) = AfterMarker =>
                   invocations[n].capturedAfterState =
                       Snapshot(n, i, j, k, "1", "updated-hash")

PhaseBefore(n, i) ==
    IF i = 1 THEN "before_state_process" ELSE invocations[n].phases[i - 1]

\* Line i was tested against the patterns of the before / after snapshot.
InCapturing(n, i, kind) ==
    IF kind = "before"
    THEN \/ TextAt(n, i).before
         \/ PhaseBefore(n, i) = "before_state_capturing"
    ELSE \/ TextAt(n, i).after
         \/ /\ PhaseBefore(n, i) = "after_state_capturing"
            /\ ~TextAt(n, i).before

\* The snapshot of a kind, the event that reports it, its capturing phase.
Captured(n, kind) ==
    IF kind = "before" THEN invocations[n].capturedBeforeState
    ELSE invocations[n].capturedAfterState

CapturedEvents(n, kind) ==
    SelectSeq(emitted, LAMBDA e : e.by = n /\ e.type = kind \o "_state_captured")

\* C15: when no "Total Companies: <digits>" line arrived in the capturing
\* phase of a kind, no snapshot of the kind exists, no *_state_captured
\* event of the kind was published, and every line that arrived in the
\* phase left the phase as it was.
C15_NoSnapshotWithoutFirstPattern ==
    \A n \in 1..Len(invocations), kind \in {"before", "after"} :
        (\A i \in 1..StreamLen(n) :
             InCapturing(n, i, kind) => ~Matches(TextAt(n, i).total)) =>
            /\ Captured(n, kind) = Null
            /\ CapturedEvents(n, kind) = <<>>
            /\ \A i \in 1..StreamLen(n) :
                   (InCapturing(n, i, kind) /\ NonMarker(TextAt(n, i))) =>
                       invocations[n].phases[i] = kind \o "_state_capturing"

\* C15, its case: "Compliant Companies" and "Global Compliance Score" lines
\* arrived in the before capturing phase and no "Total Companies" line did.
C15_Witness ==
    /\ Len(invocations) = 1
    /\ invocations[1].pc = "returned"
    /\ \E j, k \in 1..StreamLen(1) :
           /\ InCapturing(1, j, "before") /\ InCapturing(1, k, "before")
           /\ TextAt(1, j) = CompliantCompanies("5")
           /\ TextAt(1, k) = GlobalComplianceScore("80")
    /\ \A i \in 1..StreamLen(1) :
           InCapturing(1, i, "before") => ~Matches(TextAt(1, i).total)
    /\ invocations[1].response.contractStateBefore = Null

\* C16: when no "Global Compliance Score: <digits>" line arrived in the
\* capturing phase of a kind, the response of the invocation is a success
\* and reports null for the snapshot of the kind.
C16_IncompleteSnapshotIsNull ==
    \A n \in 1..Len(invocations) :
        invocations[n].pc = "returned" =>
            /\ invocations[n].response.success
            /\ (\A i \in 1..StreamLen(n) :
                    InCapturing(n, i, "before") => ~Matches(TextAt(n, i).score))
                   => invocations[n].response.contractStateBefore = Null
            /\ (\A i \in 1..StreamLen(n) :
                    InCapturing(n, i, "after") => ~Matches(TextAt(n, i).score))
                   => invocations[n].response.contractStateAfter = Null

\* C17: the interceptor of an invocation processes the lines of its own
\* capability, all of them and no others.
C17_InterceptionScoped ==
    \A n \in 1..Len(invocations) :
        /\ \A i \in 1..StreamLen(n) :
               /\ invocations[n].stdout[i].by = n
               /\ invocations[n].stdout[i].from = "capability"
        /\ StreamLen(n) =
               Cardinality({i \in 1..Len(written) : written[i].by = n})

---------------------------------------------------------------------------
\* The events of one invocation, in the order of their publication.

EventsOf(n) == SelectSeq(emitted, LAMBDA e : e.by = n)

\* The place of an execution event in the order execution_started,
\* phase_update(before_state_capturing), before_state_captured,
\* phase_update(verification_process), phase_update(after_state_capturing),
\* after_state_captured, execution_completed | execution_failed.
EventRank(e) ==
    CASE e.type = "execution_started" -> 1
      [] e.type = "phase_update" /\ e.phase = "before_state_capturing" -> 2
      [] e.type = "before_state_captured" -> 3
      [] e.type = "phase_update" /\ e.phase = "verification_process" -> 4
      [] e.type = "phase_update" /\ e.phase = "after_state_capturing" -> 5
      [] e.type = "after_state_captured" -> 6
      [] OTHER -> 7

\* C24: the execution events of an invocation are published in the order
\* execution_started, the phase events from before_state_capturing to
\* after_state_captured, execution_completed or execution_failed, and none
\* of them after the invocation ended.
C24_EventsInOrder ==
    \A n \in 1..Len(invocations) :
        \A i, j \in 1..Len(EventsOf(n)) :
            i < j => EventRank(EventsOf(n)[i]) <= EventRank(EventsOf(n)[j])

\* The place of a phase in the order before_state_process,
\* before_state_capturing, verification_process, after_state_capturing,
\* execution_completing.
PhaseRank(p) ==
    CASE p = "before_state_process" -> 1
      [] p = "before_state_capturing" -> 2
      [] p = "verification_process" -> 3
      [] p = "after_state_capturing" -> 4
      [] OTHER -> 5

\* C29: the phase of an invocation never moves to an earlier phase, a
\* state-before marker changes it only from the initial phase and a
\* state-after marker only from verification_process, and each of
\* before_state_captured and after_state_captured is published at most once.
C29_PhaseOnlyForward ==
    \A n \in 1..Len(invocations) :
        /\ \A i \in 1..StreamLen(n) :
               LET from == PhaseBefore(n, i)
                   to == invocations[n].phases[i]
               IN  /\ PhaseRank(from) <= PhaseRank(to)
                   /\ (to = "before_state_capturing" /\ from # to) =>
                          from = "before_state_process"
                   /\ (to = "after_state_capturing" /\ from # to) =>
                          from = "verification_process"
        /\ \A kind \in {"before", "after"} : Len(CapturedEvents(n, kind)) <= 1

\* The fields of a full snapshot.
SnapshotFields ==
    {"totalCompaniesTracked", "compliantCompaniesCount",
     "globalComplianceScore", "totalVerificationsGlobal", "registryVersion",
     "companiesRootHash"}

\* C30: the data of every before_state_captured and after_state_captured
\* event has the three extracted fields and the three default fields.
C30_CapturedEventIsFull ==
    \A i \in 1..Len(emitted) :
        emitted[i].type \in {"before_state_captured", "after_state_captured"}
            => DOMAIN emitted[i].data = SnapshotFields

---------------------------------------------------------------------------
\* Concurrency of jobs and readers.

\* The capability invocation of Job object o is in flight.
InFlight(o) == task[o].pc = "awaitCapability"

\* C25: while the capability invocation of a job is in flight, startJob for
\* another job and clearCompletedJobs are enabled and getJob / getAllJobs
\* answer for every id of the registry.
C25_NotSerialized ==
    (proc = "running" /\ \E o \in Objs : InFlight(o)) =>
        /\ ENABLED clearCompletedJobs
        /\ Len(objs) < MaxJobs =>
               ENABLED (\E toolName \in RequestTools :
                            StartJob(toolName, NoId, 0, TRUE, 0, FALSE))
        /\ \A id \in DOMAIN jobs : getJob(id) \in getAllJobs

\* C25, its case: two jobs were running at the same time and the one
\* started later completed while the capability of the earlier one is still
\* in flight.
C25_Witness ==
    \E o, p \in Objs :
        /\ o < p
        /\ InFlight(o) /\ objs[o].status = "running"
        /\ objs[p].status = "completed" /\ objs[p].result.success
        /\ objs[o].id # objs[p].id

\* C26: a reader of the registry never sees a completed Job without result,
\* endTime and progress 100, a failed Job without error and endTime, or a
\* running Job without progress.
C26_ReaderSeesWholeRecords ==
    \A j \in getAllJobs :
        /\ j.status = "completed" =>
               j.result.defined /\ j.endTime # Undefined /\ j.progress = 100
        /\ j.status = "failed" => j.error # NoError /\ j.endTime # Undefined
        /\ j.status = "running" => j.progress # Undefined

\* C26, its case: the registry holds a running Job whose capability is in
\* flight next to a Job that has ended.
C26_Witness ==
    /\ \E o \in Objs : InRegistry(o) /\ InFlight(o)
    /\ \E o \in Objs : InRegistry(o) /\ IsTerminal(objs[o].status)


---------------------------------------------------------------------------
\* ZKToolExecutor on its own: initialize, then executeTool calls whose
\* messages and effects are kept in full.

\* getAvailableTools: the names it returns, in its order.
getAvailableTools ==
    <<"get-GLEIF-verification-with-sign",
      "get-Corporate-Registration-verification-with-sign",
      "get-EXIM-verification-with-sign",
      "get-Composed-Compliance-verification-with-sign",
      "get-BSDI-compliance-verification",
      "get-BPI-compliance-verification",
      "get-RiskLiquidityACTUS-Verifier-Test_adv_zk",
      "get-RiskLiquidityACTUS-Verifier-Test_Basel3_Withsign",
      "get-RiskLiquidityBasel3Optim-Merkle-verification-with-sign",
      "get-RiskLiquidityAdvancedOptimMerkle-verification-with-sign",
      "get-StablecoinProofOfReservesRisk-verification-with-sign",
      "execute-composed-proof-full-kyc",
      "execute-composed-proof-financial-risk",
      "execute-composed-proof-business-integrity",
      "execute-composed-proof-comprehensive">>

\* toolScriptMap is an object literal: a lookup by a name that is not one
\* of its keys finds what the literal inherits from Object.prototype.
InheritedNames == {"constructor"}

\* What toolScriptMap[toolName] yields for a name that is no key and is
\* not inherited (undefined), and for an inherited name (a function).
UndefinedScript == ""
InheritedValue == "[Function: Object]"

\* const scriptFile = toolScriptMap[toolName]
scriptFile(toolName) ==
    IF toolName \in DOMAIN toolScriptMap THEN toolScriptMap[toolName]
    ELSE IF toolName \in InheritedNames THEN InheritedValue
    ELSE UndefinedScript

\* The names executeTool is called with: the catalog, a name the catalog
\* and Object.prototype do not have, a name Object.prototype has.
ToolNames == DOMAIN toolScriptMap \cup {"does-not-exist"} \cup InheritedNames

\* An Error: the fixed text of its message and what the message embeds.
ErrorValue(text, tool, names, path, hint) ==
    [text |-> text, tool |-> tool, names |-> names, path |-> path,
     hint |-> hint]

NoFailure == ErrorValue(NoError, "", {}, "", "")

\* `Unknown tool: ${toolName}. Available tools: ${Object.keys(...).join(', ')}`
UnknownToolError(toolName) ==
    ErrorValue(UnknownToolMsg, toolName, DOMAIN toolScriptMap, "", "")

BuildHint == "Please run 'npm run build' first."

\* `Compiled JavaScript file not found: ${compiledScriptPath}. Please run ...`
ArtifactError(script) ==
    ErrorValue(ArtifactMissingMsg, "", {}, script, BuildHint)

\* path.join given a scriptFile that is not a string.
PathArgumentMsg == "argument must be of type string"
PathArgumentError == ErrorValue(PathArgumentMsg, "", {}, "", "")

\* `Direct execution not implemented for tool: ${toolName}`
NotImplementedError(toolName) ==
    ErrorValue(NotImplementedMsg, toolName, {}, "", "")

FunctionMissingError == ErrorValue(FunctionMissingMsg, "", {}, "", "")
ImportError == ErrorValue(ImportFailedMsg, "", {}, "", "")
CapabilityError == ErrorValue(CapabilityMsg, "", {}, "", "")
TimeoutError == ErrorValue(TimeoutMsg, "", {}, "", "")

\* executeTool's catch: error instanceof Error ? error.message : 'Unknown error'
UnknownErrorMsg == "Unknown error"
ReportedError(error, isError) ==
    IF isError THEN error ELSE ErrorValue(UnknownErrorMsg, "", {}, "", "")

\* The value executeTool has not returned yet.
NoValue ==
    [defined |-> FALSE, success |-> FALSE, status |-> "", error |-> NoFailure,
     timestamp |-> FALSE, executionTime |-> FALSE]

\* The value executeTool returns from its catch block.
FailureValue(error) ==
    [defined |-> TRUE, success |-> FALSE, status |-> "failed", error |-> error,
     timestamp |-> TRUE, executionTime |-> TRUE]

\* The value executeTool returns when executeIntegratedTool returned.
SuccessValue ==
    [defined |-> TRUE, success |-> TRUE, status |-> "completed",
     error |-> NoFailure, timestamp |-> TRUE, executionTime |-> TRUE]

\* executeDirectly up to its first await: the broadcast, the replaced
\* console.log and console.error, the timer, the import.
DirectStart ==
    <<"execution_started", "console_redirected", "timer_armed", "import">>

\* A step of a call: what it did, how it stands, the failure behind it.
Step(effects, pc, timer, failure) ==
    [effects |-> effects, pc |-> pc, timer |-> timer, failure |-> failure]

\* executeCompiledScript, mutated: it looks for the artifact only after
\* the direct execution has begun.
executeCompiledScriptChecksLate(script, exists) ==
    IF script = InheritedValue
    THEN Step(<<>>, "returned", "none", PathArgumentError)
    ELSE IF ~exists
    THEN Step(DirectStart \o <<"existsSync">>, "returned", "armed",
              ArtifactError(script))
    ELSE Step(<<"existsSync">> \o DirectStart, "awaitImport", "armed",
              NoFailure)

\* executeCompiledScript: path.join, existsSync, then executeDirectly up
\* to its first await.
executeCompiledScript(script, exists) ==
    IF script = InheritedValue
    THEN Step(<<>>, "returned", "none", PathArgumentError)
    ELSE IF ~exists
    THEN Step(<<"existsSync">>, "returned", "none", ArtifactError(script))
    ELSE Step(<<"existsSync">> \o DirectStart, "awaitImport", "armed",
              NoFailure)

\* executeIntegratedTool: the lookup, then executeCompiledScript.
executeIntegratedTool(toolName, exists) ==
    IF scriptFile(toolName) = UndefinedScript
    THEN Step(<<>>, "returned", "none", UnknownToolError(toolName))
    ELSE executeCompiledScript(scriptFile(toolName), exists)

\* healthCheck: what it resolves with, given what it finds on disk; every
\* exception inside it is caught and reported as not connected.
healthCheck(found) ==
    IF found = "compiled" THEN "connected" ELSE "disconnected"

HealthFindings == {"compiled", "nothing compiled", "no main path", "throws"}

\* initialize, mutated: a health check that does not answer in time makes
\* initialize reject.
initializeRethrows(health) ==
    [pc |-> IF health = "timeout" THEN "failed" ELSE "initialized",
     health |-> health, raised |-> health = "timeout"]

\* initialize: what it leaves behind once the race has settled; health is
\* healthCheck's answer or "timeout".
initialize(health) ==
    [pc |-> "initialized", health |-> health, raised |-> FALSE]

\* startServer calls initialize: healthCheck is started and the ten-second
\* timer is set.
InitializeStarts ==
    /\ proc = "running"
    /\ startup.pc = "constructed"
    /\ startup' = [startup EXCEPT !.pc = "initializing"]
    /\ UNCHANGED <<spawnVars, serverVars, fanoutVars, consoleVars, calls>>

\* healthCheck answers before the ten seconds have passed.
HealthCheckSettles(found) ==
    /\ proc = "running"
    /\ startup.pc = "initializing"
    /\ startup' = initialize(healthCheck(found))
    /\ UNCHANGED <<spawnVars, serverVars, fanoutVars, consoleVars, calls>>

\* The ten seconds pass first: the race rejects and initialize catches.
HealthCheckTimeout ==
    /\ proc = "running"
    /\ startup.pc = "initializing"
    /\ startup' = initialize("timeout")
    /\ UNCHANGED <<spawnVars, serverVars, fanoutVars, consoleVars, calls>>

\* executeTool(toolName, parameters) up to its first suspension or its
\* return; exists is whether the tool's compiled script is on disk.
executeTool(toolName, exists) ==
    /\ proc = "running"
    /\ startup.pc = "initialized"
    /\ Len(calls) < MaxCalls
    /\ LET step == executeIntegratedTool(toolName, exists)
       IN calls' = Append(calls,
              [toolName |-> toolName, exists |-> exists,
               effects |-> step.effects, pc |-> step.pc,
               timer |-> step.timer, failure |-> step.failure,
               value |-> IF step.pc = "returned"
                         THEN FailureValue(ReportedError(step.failure, TRUE))
                         ELSE NoValue])
    /\ UNCHANGED <<spawnVars, serverVars, fanoutVars, consoleVars, startup>>

\* executeDirectly's catch and executeTool's catch after it: the console
\* is restored, execution_failed is broadcast, the failure is returned.
\* The timer is left armed.
CallFails(k, error, isError) ==
    calls' = [calls EXCEPT
                 ![k].effects = @ \o <<"console_restored", "execution_failed">>,
                 ![k].pc = "returned",
                 ![k].failure = error,
                 ![k].value = FailureValue(ReportedError(error, isError))]

\* The import settles: it rejects, or the module lacks the function, or
\* the switch has no case for the tool, or the capability is invoked.
ImportResolves(k, outcome) ==
    /\ proc = "running"
    /\ k \in 1..Len(calls)
    /\ calls[k].pc = "awaitImport"
    /\ IF outcome = "rejects" THEN CallFails(k, ImportError, TRUE)
       ELSE IF calls[k].toolName \notin DirectBindings
       THEN CallFails(k, NotImplementedError(calls[k].toolName), TRUE)
       ELSE IF outcome = "no function" THEN CallFails(k, FunctionMissingError, TRUE)
       ELSE calls' = [calls EXCEPT
                         ![k].effects = Append(@, "capability_invoked"),
                         ![k].pc = "awaitCapability"]
    /\ UNCHANGED <<spawnVars, serverVars, fanoutVars, consoleVars, startup>>

\* The capability returns: clearTimeout, the console restored,
\* execution_completed broadcast, the response returned.
CapabilityResolves(k) ==
    /\ proc = "running"
    /\ k \in 1..Len(calls)
    /\ calls[k].pc = "awaitCapability"
    /\ calls' = [calls EXCEPT
                    ![k].effects = @ \o <<"timer_cleared", "console_restored",
                                          "execution_completed">>,
                    ![k].pc = "returned",
                    ![k].timer = "cleared",
                    ![k].value = SuccessValue]
    /\ UNCHANGED <<spawnVars, serverVars, fanoutVars, consoleVars, startup>>

\* The capability rejects, with an Error or with another value.
CapabilityRejects(k, isError) ==
    /\ proc = "running"
    /\ k \in 1..Len(calls)
    /\ calls[k].pc = "awaitCapability"
    /\ CallFails(k, CapabilityError, isError)
    /\ UNCHANGED <<spawnVars, serverVars, fanoutVars, consoleVars, startup>>

\* The timer of a call fires: its callback throws outside every try block.
\* A call that had not returned never returns.
TimeoutFires(k) ==
    /\ proc = "running"
    /\ k \in 1..Len(calls)
    /\ calls[k].timer = "armed"
    /\ calls' = [calls EXCEPT
                    ![k].timer = "fired",
                    ![k].failure = IF calls[k].pc = "returned" THEN @
                                   ELSE TimeoutError]
    /\ escaped' = Append(escaped,
                         [kind |-> "uncaughtException", obj |-> k, msg |-> TimeoutMsg])
    /\ proc' = "terminated"
    /\ UNCHANGED <<spawnVars, fanoutVars, consoleVars, startup,
                   objs, jobs, task, published, clients, now, generated, cleared>>

ToolNext ==
    \/ InitializeStarts
    \/ \E found \in HealthFindings : HealthCheckSettles(found)
    \/ HealthCheckTimeout
    \/ \E toolName \in ToolNames, exists \in BOOLEAN : executeTool(toolName, exists)
    \/ \E k \in 1..MaxCalls, outcome \in {"rejects", "no function", "loaded"} :
           ImportResolves(k, outcome)
    \/ \E k \in 1..MaxCalls : CapabilityResolves(k)
    \/ \E k \in 1..MaxCalls, isError \in BOOLEAN : CapabilityRejects(k, isError)
    \/ \E k \in 1..MaxCalls : TimeoutFires(k)

ToolSpec == Init /\ [][ToolNext]_vars


---------------------------------------------------------------------------
\* Claims about the executor on its own.

\* The set of names getAvailableTools returns.
AvailableNames == {getAvailableTools[i] : i \in DOMAIN getAvailableTools}

Returned(k) == calls[k].pc = "returned"

\* C21: every failure of an executeTool call, whatever its kind, is
\* returned to the caller as a value with success = false, status
\* "failed", the message of the underlying failure as its error, a
\* timestamp and the execution time; nothing is raised instead.
C21_FailureIsReturned ==
    \A k \in 1..Len(calls) :
        calls[k].failure # NoFailure =>
            /\ calls[k].value.defined
            /\ ~calls[k].value.success
            /\ calls[k].value.status = "failed"
            /\ calls[k].value.error = calls[k].failure
            /\ calls[k].value.timestamp
            /\ calls[k].value.executionTime
            /\ escaped = <<>>

\* C22: a call with a name getAvailableTools does not return fails with
\* the unknown-tool error that lists exactly the names getAvailableTools
\* returns, and has done nothing before it (no artifact check, no
\* capability); a call with a name getAvailableTools returns never fails
\* with the unknown-tool error.
C22_UnknownNamesRejected ==
    \A k \in 1..Len(calls) :
        /\ calls[k].toolName \notin AvailableNames =>
               /\ Returned(k)
               /\ calls[k].effects = <<>>
               /\ calls[k].value =
                      FailureValue(ErrorValue(UnknownToolMsg, calls[k].toolName,
                                              AvailableNames, "", ""))
        /\ calls[k].toolName \in AvailableNames =>
               calls[k].value.error.text # UnknownToolMsg

\* C23: a call of a catalog tool whose compiled script is missing returns
\* the failure that names the expected script and the build remediation,
\* and the check of the file is its only effect: no execution_started, no
\* redirected console, no timer, no import, no capability, no
\* execution_failed.
C23_MissingArtifactFailsFirst ==
    \A k \in 1..Len(calls) :
        (calls[k].toolName \in DOMAIN toolScriptMap /\ ~calls[k].exists) =>
            /\ Returned(k)
            /\ calls[k].value.defined /\ ~calls[k].value.success
            /\ calls[k].value.error.text = ArtifactMissingMsg
            /\ calls[k].value.error.path = toolScriptMap[calls[k].toolName]
            /\ calls[k].value.error.hint = BuildHint
            /\ calls[k].effects = <<"existsSync">>
            /\ calls[k].timer = "none"

C23_Witness ==
    \E k \in 1..Len(calls) :
        /\ calls[k].toolName = "get-GLEIF-verification-with-sign"
        /\ ~calls[k].exists
        /\ Returned(k)
        /\ calls[k].value.error = ArtifactError(
               "GLEIFOptimMultiCompanyVerificationTestWithSign.js")

\* C27: initialize never raises and always can complete, whatever the
\* health check finds and also when it does not answer; the health check
\* answers connected or not connected and nothing else; once initialize is
\* over every catalog tool can be executed and jobs can be started.
C27_HealthProbeNonFatal ==
    /\ ~startup.raised
    /\ startup.pc \in {"constructed", "initializing", "initialized"}
    /\ startup.health \in {"unknown", "connected", "disconnected", "timeout"}
    /\ startup.pc = "initializing" =>
           /\ ENABLED HealthCheckTimeout
           /\ \A found \in HealthFindings : ENABLED HealthCheckSettles(found)
    /\ (startup.pc = "initialized" /\ proc = "running") =>
           /\ Len(getAvailableTools) = Cardinality(DOMAIN toolScriptMap)
           /\ Len(calls) < MaxCalls =>
                  \A toolName \in AvailableNames :
                      ENABLED executeTool(toolName, TRUE)
           /\ ENABLED (\E toolName \in RequestTools :
                           StartJob(toolName, NoId, 0, TRUE, 0, FALSE))

C27_Witness ==
    /\ startup.pc = "initialized"
    /\ startup.health = "timeout"
    /\ \E k \in 1..Len(calls) : Returned(k) /\ calls[k].value.success

\* C28: a call of a name getAvailableTools returns, whose compiled script
\* is present, imports and exports the expected function, invokes the
\* capability and does not fail with "Direct execution not implemented
\* for tool".
C28_CatalogIsBound ==
    \A k \in 1..Len(calls) :
        (/\ calls[k].toolName \in AvailableNames
         /\ calls[k].exists
         /\ calls[k].pc # "awaitImport"
         /\ calls[k].failure.text \notin {ImportFailedMsg, FunctionMissingMsg}) =>
            /\ calls[k].failure.text # NotImplementedMsg
            /\ \E i \in 1..Len(calls[k].effects) :
                   calls[k].effects[i] = "capability_invoked"


---------------------------------------------------------------------------
\* Extraction as an observer.

\* The lines of capabilities that reached the runtime's own console.log.
ForwardedLines == SelectSeq(sink, LAMBDA out : out.from = "capability")

\* C31: the lines the capabilities wrote reach the runtime's console.log
\* once each and in the order they were written, whatever they contain;
\* two invocations whose capability returned the same value have responses
\* with the same success flag and the same capability result, whatever
\* their lines were.
C31_PureObserver ==
    /\ Len(ForwardedLines) = Len(written)
    /\ \A i \in 1..Len(written) :
           /\ ForwardedLines[i].by = written[i].by
           /\ ForwardedLines[i].text = written[i].text
    /\ \A n, m \in 1..Len(invocations) :
           (/\ invocations[n].pc = "returned"
            /\ invocations[m].pc = "returned"
            /\ invocations[n].result = invocations[m].result) =>
               /\ invocations[n].response.success =
                      invocations[m].response.success
               /\ invocations[n].response.result =
                      invocations[m].response.result
               /\ invocations[n].response.result = invocations[n].result

C31_Witness ==
    /\ Len(invocations) = 2
    /\ invocations[1].pc = "returned" /\ invocations[2].pc = "returned"
    /\ invocations[1].result = invocations[2].result
    /\ invocations[1].capturedBeforeState # Null
    /\ invocations[2].capturedBeforeState = Null
    /\ \E i, j \in 1..Len(written) :
           written[i].text = OtherLine /\ written[j].text = BeforeMarker
    /\ Len(ForwardedLines) = MaxOverlapLines


---------------------------------------------------------------------------
\* C32: in every broadcast call, each socket that is open when the call is
\* made and whose own send does not raise receives the event exactly once,
\* also when the send to another socket raises.
C32_SendsIndependent ==
    \A n \in 1..Len(sends) :
        \A c \in sends[n].open :
            c # sends[n].failed => Deliveries(c, n) = 1


---------------------------------------------------------------------------
\* C33: clearCompletedJobs leaves every Job object, every driving task and
\* the published events as they are and keeps every pending or running Job
\* in the registry; afterwards the task of a running Job can still go on,
\* and once it is over getJob reports the Job with a terminal status.
C33_ClearChangesNothingElse ==
    /\ [][clearCompletedJobs =>
            /\ objs' = objs
            /\ task' = task
            /\ published' = published
            /\ \A id \in DOMAIN jobs :
                   ~IsTerminal(objs[jobs[id]].status) =>
                       /\ id \in DOMAIN jobs'
                       /\ jobs'[id] = jobs[id]]_vars
    /\ [](\A o \in Objs :
             (cleared # {} /\ proc = "running" /\ InFlight(o)) =>
                 ENABLED CapabilityReturns(o, TRUE, FALSE))
    /\ [](\A o \in Objs :
             (cleared # {} /\ InRegistry(o) /\ task[o].pc = "done") =>
                 IsTerminal(getJob(objs[o].id).status))

\* C33, its case: a Job was removed, and a Job that had started before the
\* removed one ended has been driven to completed and is in the registry.
C33_Witness ==
    \E p \in cleared : \E o \in Objs :
        /\ o # p
        /\ InRegistry(o)
        /\ task[o].pc = "done"
        /\ objs[o].status = "completed"
        /\ objs[o].startTime <= objs[p].endTime


---------------------------------------------------------------------------
\* C34: whenever no invocation is in flight, console.log is the runtime's
\* own console.log, the one bound before any invocation started.
C34_SinkRestoredWhenIdle ==
    (\A n \in 1..Len(invocations) : invocations[n].pc # "running") =>
        consoleLog = 0


---------------------------------------------------------------------------
\* C35: once a call of executeTool has returned, on whatever path, its
\* timer is not armed any more and has not fired.
C35_TimerCancelled ==
    \A k \in 1..Len(calls) :
        Returned(k) => calls[k].timer \in {"none", "cleared"}

---------------------------------------------------------------------------
\* The executor with the spawned-process mode: the constructor, the routing
\* of executeCompiledScript, the child process of executeJavaScriptFile.

StablecoinTool == "get-StablecoinProofOfReservesRisk-verification-with-sign"

\* The tools executeCompiledScript always hands to executeDirectly.
ForcedDirect ==
    {"get-BPI-compliance-verification",
     "get-BSDI-compliance-verification",
     "get-RiskLiquidityBasel3Optim-Merkle-verification-with-sign",
     StablecoinTool,
     "get-RiskLiquidityAdvancedOptimMerkle-verification-with-sign"}

\* The tools the executions use: one that is always executed directly and
\* one that follows the configured mode.
ExecutedTools == {StablecoinTool, "get-GLEIF-verification-with-sign"}

\* A setting or parameter that is not given; a || b takes b then.
NotGiven == ""

Or(a, b) == IF a # NotGiven THEN a ELSE b

\* The values of ACTUS_SERVER_URL and of the caller's actusUrl parameter.
ServerUrls == {NotGiven, "http://actus.server/eventsBatch"}
CallerUrls == {NotGiven, "http://caller.example/eventsBatch"}

SpawnDefaultUrl == "http://3.88.158.37:8083/eventsBatch"
DirectDefaultUrl == "http://localhost:8083/eventsBatch"

\* prepareScriptArgs, stablecoin case: [threshold, actusUrl, configFilePath,
\* executionMode, jurisdiction]; other tools get no ACTUS URL here.
prepareScriptArgs(parameters, toolName) ==
    IF toolName = StablecoinTool
    THEN <<"100", Or(config.ACTUS_SERVER_URL, SpawnDefaultUrl),
           "src/data/RISK/StableCoin/CONFIG/US/StableCoin-VALID-1.json",
           "ultra_strict", "US">>
    ELSE <<>>

\* executeStablecoinVerificationDirect: the ACTUS URL it works with.
executeStablecoinVerificationDirect(parameters) ==
    Or(parameters.actusUrl, Or(config.ACTUS_SERVER_URL, DirectDefaultUrl))

\* executeCompiledScript: direct execution for the forced tools, else what
\* the configuration says.
Route(toolName) ==
    IF toolName \in ForcedDirect \/ config.executionMode = "direct"
    THEN "direct" ELSE "spawn"

\* The ACTUS URL an execution of the tool along the route works with.
ActusUrlUsed(toolName, parameters, route) ==
    IF toolName # StablecoinTool THEN NotGiven
    ELSE IF route = "direct" THEN executeStablecoinVerificationDirect(parameters)
    ELSE prepareScriptArgs(parameters, toolName)[2]

\* The constructor reads ZK_PRET_EXECUTION_MODE; ACTUS_SERVER_URL is the
\* process's setting.
Construct(mode, url) ==
    /\ ~config.constructed
    /\ config' = [constructed |-> TRUE, executionMode |-> mode,
                  ACTUS_SERVER_URL |-> url]
    /\ UNCHANGED <<serverVars, fanoutVars, consoleVars, toolVars,
                   executions, children>>

\* The spawned node process as executeJavaScriptFile holds it.
NewChild(e) ==
    [execution |-> e, isResolved |-> FALSE, timeoutId |-> "armed",
     stdout |-> <<>>, signals |-> <<>>, settled |-> <<>>, events |-> <<>>]

\* executeCompiledScript for a tool whose compiled script exists: the
\* execution is routed; in spawn mode the process is spawned and the timer
\* set.
Execute(toolName, actusUrl) ==
    /\ config.constructed
    /\ Len(executions) < MaxExecutions
    /\ LET parameters == [actusUrl |-> actusUrl]
           route == Route(toolName)
       IN  /\ executions' = Append(executions,
                  [toolName |-> toolName, parameters |-> parameters,
                   route |-> route,
                   url |-> ActusUrlUsed(toolName, parameters, route)])
           /\ children' = IF route = "spawn"
                          THEN Append(children, NewChild(Len(executions) + 1))
                          ELSE children
    /\ UNCHANGED <<serverVars, fanoutVars, consoleVars, toolVars, config>>

\* What the promise of executeJavaScriptFile is settled with.
Resolved(verified) == [kind |-> "resolved", verified |-> verified, msg |-> ""]
Rejected(msg) == [kind |-> "rejected", verified |-> FALSE, msg |-> msg]

SpawnTimeoutMsg == "Script execution timeout"
ExitCodeMsg == "Script failed with exit code"
ProcessErrorMsg == "process error"

Chunks == {"Verification successful", "Verification failed", "other"}

Includes(stdout, chunk) == \E i \in 1..Len(stdout) : stdout[i] = chunk

\* The callback of setTimeout.
OnTimeout(child) ==
    IF ~child.isResolved
    THEN [child EXCEPT !.isResolved = TRUE,
                       !.timeoutId = "fired",
                       !.signals = Append(@, "SIGTERM"),
                       !.settled = Append(@, Rejected(SpawnTimeoutMsg)),
                       !.events = Append(@, "timeout")]
    ELSE [child EXCEPT !.timeoutId = "fired", !.events = Append(@, "timeout")]

\* nodeProcess.on('close'), mutated: it does not look at isResolved.
OnCloseUnguarded(child, code) ==
    [child EXCEPT !.isResolved = TRUE,
                  !.timeoutId = IF @ = "armed" THEN "cleared" ELSE @,
                  !.settled = Append(@, IF code = 0
                                        THEN Resolved(FALSE)
                                        ELSE Rejected(ExitCodeMsg)),
                  !.events = Append(@, "close")]

\* nodeProcess.on('close').
OnClose(child, code) ==
    IF ~child.isResolved
    THEN [child EXCEPT
             !.isResolved = TRUE,
             !.timeoutId = "cleared",
             !.settled = Append(@,
                 IF code = 0
                 THEN Resolved(Includes(child.stdout, "Verification successful")
                               /\ ~Includes(child.stdout, "Verification failed"))
                 ELSE Rejected(ExitCodeMsg)),
             !.events = Append(@, "close")]
    ELSE [child EXCEPT !.events = Append(@, "close")]

\* nodeProcess.on('error').
OnError(child) ==
    IF ~child.isResolved
    THEN [child EXCEPT !.isResolved = TRUE,
                       !.timeoutId = "cleared",
                       !.settled = Append(@, Rejected(ProcessErrorMsg)),
                       !.events = Append(@, "error")]
    ELSE [child EXCEPT !.events = Append(@, "error")]

Happened(child, event) ==
    \E i \in 1..Len(child.events) : child.events[i] = event

\* The child writes a chunk to its stdout.
ChildData(c, chunk) ==
    /\ c \in 1..Len(children)
    /\ ~Happened(children[c], "close")
    /\ Len(children[c].stdout) < MaxChunks
    /\ children' = [children EXCEPT ![c].stdout = Append(@, chunk)]
    /\ UNCHANGED <<serverVars, fanoutVars, consoleVars, toolVars,
                   config, executions>>

\* The configured time has passed and the timer was not cleared.
ChildTimeout(c) ==
    /\ c \in 1..Len(children)
    /\ children[c].timeoutId = "armed"
    /\ children' = [children EXCEPT ![c] = OnTimeout(@)]
    /\ UNCHANGED <<serverVars, fanoutVars, consoleVars, toolVars,
                   config, executions>>

\* The child's streams are closed; code is its exit code, -1 when it was
\* ended by a signal.
ChildClose(c, code) ==
    /\ c \in 1..Len(children)
    /\ ~Happened(children[c], "close")
    /\ children' = [children EXCEPT ![c] = OnClose(@, code)]
    /\ UNCHANGED <<serverVars, fanoutVars, consoleVars, toolVars,
                   config, executions>>

\* The child could not be spawned, or could not be killed.
ChildError(c) ==
    /\ c \in 1..Len(children)
    /\ ~Happened(children[c], "error")
    /\ ~Happened(children[c], "close")
    /\ children' = [children EXCEPT ![c] = OnError(@)]
    /\ UNCHANGED <<serverVars, fanoutVars, consoleVars, toolVars,
                   config, executions>>

SpawnNext ==
    \/ \E mode \in {"direct", "spawn"}, url \in ServerUrls : Construct(mode, url)
    \/ \E toolName \in ExecutedTools, actusUrl \in CallerUrls :
           Execute(toolName, actusUrl)
    \/ \E c \in 1..MaxExecutions, chunk \in Chunks : ChildData(c, chunk)
    \/ \E c \in 1..MaxExecutions : ChildTimeout(c)
    \/ \E c \in 1..MaxExecutions, code \in {0, 1, -1} : ChildClose(c, code)
    \/ \E c \in 1..MaxExecutions : ChildError(c)

SpawnSpec == Init /\ [][SpawnNext]_vars

---------------------------------------------------------------------------
\* C37: the promise of a spawned execution is settled at most once, and
\* once as soon as a timeout, close or error has happened; the first of
\* them decides: after a timeout first the child got SIGTERM and the
\* promise is rejected with the timeout error, after a close or error
\* first the timer is cleared and never fires; later events change nothing.
C37_SettlesOnce ==
    \A c \in 1..Len(children) :
        LET child == children[c]
        IN  /\ Len(child.settled) <= 1
            /\ child.events # <<>> =>
                   /\ Len(child.settled) = 1
                   /\ child.isResolved
                   /\ child.events[1] = "timeout" =>
                          /\ child.settled[1] = Rejected(SpawnTimeoutMsg)
                          /\ child.signals = <<"SIGTERM">>
                   /\ child.events[1] = "close" =>
                          /\ child.timeoutId = "cleared"
                          /\ child.signals = <<>>
                          /\ child.settled[1].msg \in {"", ExitCodeMsg}
                   /\ child.events[1] = "error" =>
                          /\ child.timeoutId = "cleared"
                          /\ child.signals = <<>>
                          /\ child.settled[1] = Rejected(ProcessErrorMsg)
            /\ child.events = <<>> => child.settled = <<>>

\* C37, its case: the timeout came first and a close after it.
C37_Witness ==
    \E c \in 1..Len(children) :
        /\ children[c].events = <<"timeout", "close">>
        /\ children[c].settled = <<Rejected(SpawnTimeoutMsg)>>

\* C38: two executions of the stablecoin tool work with the same ACTUS URL,
\* the server's ACTUS_SERVER_URL or its default, whatever actusUrl their
\* callers gave.
C38_ActusUrlFromServer ==
    \A i, j \in 1..Len(executions) :
        (executions[i].toolName = StablecoinTool
         /\ executions[j].toolName = StablecoinTool) =>
            /\ executions[i].url = executions[j].url
            /\ executions[i].url \in
                   {config.ACTUS_SERVER_URL, SpawnDefaultUrl, DirectDefaultUrl}
               \ {NotGiven}

====
